---- MODULE Spec2Model ----
(***************************************************************************)
(* Model of the constraint-based tutor's grading code:                     *)
(*   src/problems/play_music.py  (PROBLEM_CONFIG, grade_statement, grade)  *)
(*   src/shared_utils.py         (grade_question_parameterized,            *)
(*                                set_weighted_score_data, binary_search,  *)
(*                                is_power_of_base)                        *)
(* The scaffolded_writing package (ScaffoldedWritingCFG, StudentSubmission)*)
(* is imported by play_music.py but is not among the sources; the grammar  *)
(* path checker below follows section 4.1 of the specification.            *)
(***************************************************************************)
EXTENDS Integers, Sequences, FiniteSets, TLC

VARIABLES
    data,                \* the data record the grading host passes to grade
    data0,               \* the data record as it was when grade was called
    pc,                  \* position of the call in progress
    exc,                 \* the exception that left the call ("none": it returned)
    grade_function,      \* the grade function handed to grade_question_parameterized
    stub,                \* what a grade function other than grade_statement does
    weight,              \* the weight argument
    feedback_field_name, \* the feedback_field_name argument
    rules_evaluated,     \* number of grade_statement rules the call reached
    fn,                  \* the pure function called on its own
    args,                \* its arguments
    result               \* its outcome

vars == <<data, data0, pc, exc, grade_function, stub, weight, feedback_field_name,
          rules_evaluated, fn, args, result>>

gradeVars == <<data, data0, exc, grade_function, stub, weight, feedback_field_name,
               rules_evaluated>>

pureVars == <<fn, args, result>>

(***************************************************************************)
(* Python values                                                           *)
(***************************************************************************)

\* Python's None, where a string or None is expected.
None == "<None>"

\* An empty dict.
EmptyDict == [k \in {} |-> None]

\* d[k] = v on a dict.
Put(d, k, v) == [x \in (DOMAIN d) \cup {k} |-> IF x = k THEN v ELSE d[x]]

\* Resolution of the non-integer scores of the model: a number is val / ScoreDen.
ScoreDen == 2

\* A Python bool (a subclass of int).
Bool(b) == [type |-> "bool", val |-> IF b THEN 1 ELSE 0]

\* A Python int or float, n / ScoreDen.
Num(n) == [type |-> "num", val |-> n]

\* A value that is neither a number nor a bool (a str, None, ...).
Other == [type |-> "other", val |-> 0]

\* The numeric value of a result, in units of 1 / ScoreDen (True is 1, False is 0).
Numerator(r) == IF r.type = "bool" THEN r.val * ScoreDen ELSE r.val

(***************************************************************************)
(* play_music.py: the grammar                                              *)
(***************************************************************************)

ARTIST == <<"Vulfpeck", "Janice Kapp Perry", "Taylor Swift">>

PLAY_LOCATION == <<"in church", "at the quad", "at home">>

INSTRUMENT == <<"with a trombone", "with a violin", "with a guitar">>

\* Non-terminal |-> its alternatives in declared order, each a sequence of symbols.
PROBLEM_CONFIG ==
    [START         |-> << <<"Play", "PLAY">> >>,
     PLAY          |-> << <<"ARTIST", "PLAY_LOCATION", "INSTRUMENT">>, <<"EPSILON">> >>,
     ARTIST        |-> [i \in 1..3 |-> <<ARTIST[i]>>],
     PLAY_LOCATION |-> [i \in 1..3 |-> <<PLAY_LOCATION[i]>>],
     INSTRUMENT    |-> [i \in 1..3 |-> <<INSTRUMENT[i]>>],
     EPSILON       |-> << <<>> >>]

Range(s) == {s[i] : i \in DOMAIN s}

(***************************************************************************)
(* Grammar-path checker (StudentSubmission).  A parse is the set of        *)
(* parent -> child edges of the derivation tree together with the tokens   *)
(* left unconsumed.  Alternatives are tried in declared order.             *)
(***************************************************************************)

RECURSIVE ParseSymbols(_, _, _), ParseAlternatives(_, _, _, _), ParseRest(_, _, _)

\* Every way `symbols` derives a prefix of `tokens`, in declared order.
ParseSymbols(cfg, symbols, tokens) ==
    IF symbols = <<>>
    THEN << [rest |-> tokens, edges |-> {}] >>
    ELSE LET s == Head(symbols)
             heads == IF s \in DOMAIN cfg
                      THEN ParseAlternatives(cfg, s, 1, tokens)
                      ELSE IF tokens # <<>> /\ Head(tokens) = s
                           THEN << [rest |-> Tail(tokens), edges |-> {}] >>
                           ELSE <<>>
         IN  ParseRest(cfg, heads, Tail(symbols))

\* Each parse of the first symbol continued with the remaining symbols.
ParseRest(cfg, heads, symbols) ==
    IF heads = <<>>
    THEN <<>>
    ELSE LET h == Head(heads)
             tails == ParseSymbols(cfg, symbols, h.rest)
         IN  [i \in 1..Len(tails) |->
                 [rest |-> tails[i].rest, edges |-> h.edges \cup tails[i].edges]]
             \o ParseRest(cfg, Tail(heads), symbols)

\* The parses of non-terminal nt by its alternatives i, i+1, ...
ParseAlternatives(cfg, nt, i, tokens) ==
    IF i > Len(cfg[nt])
    THEN <<>>
    ELSE LET alt == cfg[nt][i]
             found == ParseSymbols(cfg, alt, tokens)
         IN  [j \in 1..Len(found) |->
                 [rest |-> found[j].rest,
                  edges |-> found[j].edges \cup {<<nt, alt[k]>> : k \in 1..Len(alt)}]]
             \o ParseAlternatives(cfg, nt, i + 1, tokens)

\* The derivations of the whole token list from START.
FullParses(cfg, tokens) ==
    LET IsFull(p) == p.rest = <<>>
    IN  SelectSeq(ParseAlternatives(cfg, "START", 1, tokens), IsFull)

\* StudentSubmission(tokens, cfg): the derivation record, or a format error
\* (ValueError) when the tokens are not derivable.
StudentSubmission(tokens, cfg) ==
    LET full == FullParses(cfg, tokens)
    IN  IF full = <<>>
        THEN [exc |-> "ValueError", edges |-> {}]
        ELSE [exc |-> "none", edges |-> Head(full).edges]

\* submission.does_path_exist(non_terminal, literal)
does_path_exist(submission, non_terminal, literal) ==
    <<non_terminal, literal>> \in submission.edges

(***************************************************************************)
(* play_music.py: grade_statement                                          *)
(***************************************************************************)

\* What a call of a grade function does: it raises exc (with message), or
\* returns the tuple (result, feedback).  `rules` counts the rule conditions
\* (if statements) of grade_statement the call reached.
Raise(exception, message, n) ==
    [exc |-> exception, message |-> message, result |-> Other, feedback |-> None, rules |-> n]

Return(res, feedback_content, n) ==
    [exc |-> "none", message |-> "", result |-> res, feedback |-> feedback_content, rules |-> n]

\* The message of the format error of a submission that is not derivable.
NotDerivable == "The submission cannot be derived from the grammar"

\* grade_statement with the violin rule moved in front of the church rule.
grade_statement_violin_first(tokens) ==
    LET submission == StudentSubmission(tokens, PROBLEM_CONFIG)
    IN  IF submission.exc # "none"
        THEN Raise(submission.exc, NotDerivable, 0)
        ELSE IF does_path_exist(submission, "ARTIST", "Vulfpeck")
                /\ does_path_exist(submission, "INSTRUMENT", "with a violin")
        THEN Return(Bool(FALSE), "Yeah that doesn't really work. You'd better use a different instrument if you want to play Vulfpeck", 1)
        ELSE IF does_path_exist(submission, "ARTIST", "Taylor Swift")
        THEN Return(Bool(FALSE), "It's best to sing Taylor Swift songs rather than play them. Try again.", 2)
        ELSE IF does_path_exist(submission, "ARTIST", "Vulfpeck")
                /\ does_path_exist(submission, "PLAY_LOCATION", "in church")
        THEN Return(Bool(FALSE), "Vulfpeck is great, but not in the context of church. consider playing somewhere else.", 3)
        ELSE IF does_path_exist(submission, "PLAY_LOCATION", "at home")
        THEN Return(Bool(FALSE), "No need to play at home anymore. You've practiced. Go out and play!", 4)
        ELSE IF does_path_exist(submission, "ARTIST", "Janice Kapp Perry")
                /\ does_path_exist(submission, "PLAY_LOCATION", "at the quad")
        THEN Return(Bool(FALSE), "Her music is a bit soft. Not many people will be able to hear it", 5)
        ELSE IF does_path_exist(submission, "ARTIST", "Vulfpeck")
                /\ does_path_exist(submission, "PLAY_LOCATION", "at the quad")
                /\ does_path_exist(submission, "INSTRUMENT", "with a guitar")
        THEN Return(Bool(TRUE), "Yep. That's the ultimate combo.", 6)
        ELSE Return(Bool(TRUE), None, 6)

\* grade_statement with the Taylor Swift rule moved behind the at-home rule.
grade_statement_taylor_late(tokens) ==
    LET submission == StudentSubmission(tokens, PROBLEM_CONFIG)
    IN  IF submission.exc # "none"
        THEN Raise(submission.exc, NotDerivable, 0)
        ELSE IF does_path_exist(submission, "ARTIST", "Vulfpeck")
                /\ does_path_exist(submission, "PLAY_LOCATION", "in church")
        THEN Return(Bool(FALSE), "Vulfpeck is great, but not in the context of church. consider playing somewhere else.", 1)
        ELSE IF does_path_exist(submission, "ARTIST", "Vulfpeck")
                /\ does_path_exist(submission, "INSTRUMENT", "with a violin")
        THEN Return(Bool(FALSE), "Yeah that doesn't really work. You'd better use a different instrument if you want to play Vulfpeck", 2)
        ELSE IF does_path_exist(submission, "PLAY_LOCATION", "at home")
        THEN Return(Bool(FALSE), "No need to play at home anymore. You've practiced. Go out and play!", 3)
        ELSE IF does_path_exist(submission, "ARTIST", "Taylor Swift")
        THEN Return(Bool(FALSE), "It's best to sing Taylor Swift songs rather than play them. Try again.", 4)
        ELSE IF does_path_exist(submission, "ARTIST", "Janice Kapp Perry")
                /\ does_path_exist(submission, "PLAY_LOCATION", "at the quad")
        THEN Return(Bool(FALSE), "Her music is a bit soft. Not many people will be able to hear it", 5)
        ELSE IF does_path_exist(submission, "ARTIST", "Vulfpeck")
                /\ does_path_exist(submission, "PLAY_LOCATION", "at the quad")
                /\ does_path_exist(submission, "INSTRUMENT", "with a guitar")
        THEN Return(Bool(TRUE), "Yep. That's the ultimate combo.", 6)
        ELSE Return(Bool(TRUE), None, 6)

\* grade_statement with the instrument condition of the bonus rule left out.
grade_statement_any_instrument(tokens) ==
    LET submission == StudentSubmission(tokens, PROBLEM_CONFIG)
    IN  IF submission.exc # "none"
        THEN Raise(submission.exc, NotDerivable, 0)
        ELSE IF does_path_exist(submission, "ARTIST", "Vulfpeck")
                /\ does_path_exist(submission, "PLAY_LOCATION", "in church")
        THEN Return(Bool(FALSE), "Vulfpeck is great, but not in the context of church. consider playing somewhere else.", 1)
        ELSE IF does_path_exist(submission, "ARTIST", "Taylor Swift")
        THEN Return(Bool(FALSE), "It's best to sing Taylor Swift songs rather than play them. Try again.", 2)
        ELSE IF does_path_exist(submission, "ARTIST", "Vulfpeck")
                /\ does_path_exist(submission, "INSTRUMENT", "with a violin")
        THEN Return(Bool(FALSE), "Yeah that doesn't really work. You'd better use a different instrument if you want to play Vulfpeck", 3)
        ELSE IF does_path_exist(submission, "PLAY_LOCATION", "at home")
        THEN Return(Bool(FALSE), "No need to play at home anymore. You've practiced. Go out and play!", 4)
        ELSE IF does_path_exist(submission, "ARTIST", "Janice Kapp Perry")
                /\ does_path_exist(submission, "PLAY_LOCATION", "at the quad")
        THEN Return(Bool(FALSE), "Her music is a bit soft. Not many people will be able to hear it", 5)
        ELSE IF does_path_exist(submission, "ARTIST", "Vulfpeck")
                /\ does_path_exist(submission, "PLAY_LOCATION", "at the quad")
        THEN Return(Bool(TRUE), "Yep. That's the ultimate combo.", 6)
        ELSE Return(Bool(TRUE), None, 6)

\* grade_statement with a final `return False, None`.
grade_statement_reject_default(tokens) ==
    LET submission == StudentSubmission(tokens, PROBLEM_CONFIG)
    IN  IF submission.exc # "none"
        THEN Raise(submission.exc, NotDerivable, 0)
        ELSE IF does_path_exist(submission, "ARTIST", "Vulfpeck")
                /\ does_path_exist(submission, "PLAY_LOCATION", "in church")
        THEN Return(Bool(FALSE), "Vulfpeck is great, but not in the context of church. consider playing somewhere else.", 1)
        ELSE IF does_path_exist(submission, "ARTIST", "Taylor Swift")
        THEN Return(Bool(FALSE), "It's best to sing Taylor Swift songs rather than play them. Try again.", 2)
        ELSE IF does_path_exist(submission, "ARTIST", "Vulfpeck")
                /\ does_path_exist(submission, "INSTRUMENT", "with a violin")
        THEN Return(Bool(FALSE), "Yeah that doesn't really work. You'd better use a different instrument if you want to play Vulfpeck", 3)
        ELSE IF does_path_exist(submission, "PLAY_LOCATION", "at home")
        THEN Return(Bool(FALSE), "No need to play at home anymore. You've practiced. Go out and play!", 4)
        ELSE IF does_path_exist(submission, "ARTIST", "Janice Kapp Perry")
                /\ does_path_exist(submission, "PLAY_LOCATION", "at the quad")
        THEN Return(Bool(FALSE), "Her music is a bit soft. Not many people will be able to hear it", 5)
        ELSE IF does_path_exist(submission, "ARTIST", "Vulfpeck")
                /\ does_path_exist(submission, "PLAY_LOCATION", "at the quad")
                /\ does_path_exist(submission, "INSTRUMENT", "with a guitar")
        THEN Return(Bool(TRUE), "Yep. That's the ultimate combo.", 6)
        ELSE Return(Bool(FALSE), None, 6)

grade_statement(tokens) ==
    LET submission == StudentSubmission(tokens, PROBLEM_CONFIG)
    IN  IF submission.exc # "none"
        THEN Raise(submission.exc, NotDerivable, 0)
        ELSE IF does_path_exist(submission, "ARTIST", "Vulfpeck")
                /\ does_path_exist(submission, "PLAY_LOCATION", "in church")
        THEN Return(Bool(FALSE), "Vulfpeck is great, but not in the context of church. consider playing somewhere else.", 1)
        ELSE IF does_path_exist(submission, "ARTIST", "Taylor Swift")
        THEN Return(Bool(FALSE), "It's best to sing Taylor Swift songs rather than play them. Try again.", 2)
        ELSE IF does_path_exist(submission, "ARTIST", "Vulfpeck")
                /\ does_path_exist(submission, "INSTRUMENT", "with a violin")
        THEN Return(Bool(FALSE), "Yeah that doesn't really work. You'd better use a different instrument if you want to play Vulfpeck", 3)
        ELSE IF does_path_exist(submission, "PLAY_LOCATION", "at home")
        THEN Return(Bool(FALSE), "No need to play at home anymore. You've practiced. Go out and play!", 4)
        ELSE IF does_path_exist(submission, "ARTIST", "Janice Kapp Perry")
                /\ does_path_exist(submission, "PLAY_LOCATION", "at the quad")
        THEN Return(Bool(FALSE), "Her music is a bit soft. Not many people will be able to hear it", 5)
        ELSE IF does_path_exist(submission, "ARTIST", "Vulfpeck")
                /\ does_path_exist(submission, "PLAY_LOCATION", "at the quad")
                /\ does_path_exist(submission, "INSTRUMENT", "with a guitar")
        THEN Return(Bool(TRUE), "Yep. That's the ultimate combo.", 6)
        ELSE Return(Bool(TRUE), None, 6)

(***************************************************************************)
(* shared_utils.py: grade_question_parameterized, set_weighted_score_data  *)
(***************************************************************************)

\* The question play_music.grade grades.
QUESTION == "subproblem_definition"

\* A submitted answer is a list of tokens or a str (a sequence of characters).
ListAnswer(tokens) == [type |-> "list", value |-> tokens]

StrAnswer(chars) == [type |-> "str", value |-> chars]

\* Feedback of a grade function that echoes the student's input "<0>".
EchoFeedback == "<0> is wrong"

\* A format message that holds markup characters.
MarkupMessage == "<0> is not a set"

\* html.escape on the messages of the model.
html_escape(message) ==
    IF message = MarkupMessage THEN "&lt;0&gt; is not a set" ELSE message

\* `submitted_answer in feedback_content` on the texts of the model: of the
\* feedback texts only EchoFeedback holds a "0" or a "<".
str_in(chars, feedback_content) ==
    \/ chars = <<>>
    \/ /\ feedback_content = EchoFeedback
       /\ chars \in {<<"0">>, <<"<">>, <<">">>, <<"<", "0">>, <<"0", ">">>, <<"<", "0", ">">>}

\* The grade function called on the submitted answer: grade_statement, or a
\* stub that raises or returns what `st` says.
call_grade_function(gf, st, submitted_answer) ==
    IF gf = "grade_statement" THEN grade_statement(submitted_answer.value) ELSE st

\* The assertion with its upper bound left out.
in_unit_interval_lower_only(res) == 0 <= Numerator(res)

\* assert 0.0 <= result <= 1.0
in_unit_interval(res) == 0 <= Numerator(res) /\ Numerator(res) <= ScoreDen

\* The body of the try block once the grade function has returned `res`:
\* the partial score, or the exception raised.
partial_score_of(res) ==
    IF res.type \in {"bool", "num"}
    THEN IF in_unit_interval(res)
         THEN [exc |-> "none", partial_score |-> res]
         ELSE [exc |-> "AssertionError", partial_score |-> Num(0)]
    ELSE [exc |-> "TypeError", partial_score |-> Num(0)]

\* The record created only when the question has none yet.
create_partial_score_if_absent(d, question_name, w) ==
    IF question_name \in DOMAIN d.partial_scores
    THEN d
    ELSE [d EXCEPT !.partial_scores = Put(@, question_name, [score |-> Num(0), weight |-> w])]

\* data['partial_scores'][question_name] = {'score': 0, 'weight': weight}
create_partial_score(d, question_name, w) ==
    [d EXCEPT !.partial_scores = Put(@, question_name, [score |-> Num(0), weight |-> w])]

\* data["format_errors"][question_name] = message
set_format_error(d, question_name, message) ==
    [d EXCEPT !.format_errors = Put(@, question_name, message)]

\* set_feedback(data, feedback_field_name, feedback_content)
set_feedback(d, field_name, feedback_content) ==
    [d EXCEPT !.feedback = Put(@, field_name, feedback_content)]

\* The part of grade_question_parameterized after a successful grading.
record_grade(d, question_name, submitted_answer, partial_score, feedback_content, ffn) ==
    LET d2 == [d EXCEPT !.partial_scores[question_name] = Put(@, "score", partial_score)]
        truthy == feedback_content # None /\ feedback_content # ""
        contains_bad_chars == \A x \in {"<", ">"} : x \in Range(submitted_answer.value)
    IN  IF ~truthy
        THEN [data |-> d2, exc |-> "none"]
        ELSE IF /\ submitted_answer.type = "str"
                /\ contains_bad_chars
                /\ str_in(submitted_answer.value, feedback_content)
        THEN [data |-> d2, exc |-> "ValueError"]
        ELSE LET d3 == [d2 EXCEPT !.partial_scores[question_name] =
                                      Put(@, "feedback", feedback_content)]
                 field_name == IF ffn = None THEN question_name ELSE ffn
             IN  [data |-> set_feedback(d3, field_name, feedback_content), exc |-> "none"]

\* grade_question_parameterized(data, question_name, grade_function, weight,
\* feedback_field_name): the data it leaves, the exception it raises ("none"
\* when it returns) and the number of grade_statement rules that were reached.
grade_question_parameterized(d, question_name, gf, st, w, ffn) ==
    LET d1 == create_partial_score(d, question_name, w)
    IN  IF question_name \notin DOMAIN d.submitted_answers
        THEN [data |-> set_format_error(d1, question_name, "No answer was submitted"),
              exc |-> "none", rules |-> 0]
        ELSE LET submitted_answer == d.submitted_answers[question_name]
                 g == call_grade_function(gf, st, submitted_answer)
                 t == IF g.exc # "none"
                      THEN [exc |-> g.exc, partial_score |-> Num(0)]
                      ELSE partial_score_of(g.result)
             IN  IF t.exc = "ValueError"
                 THEN [data |-> set_format_error(d1, question_name, html_escape(g.message)),
                       exc |-> "none", rules |-> g.rules]
                 ELSE IF t.exc # "none"
                 THEN [data |-> d1, exc |-> t.exc, rules |-> g.rules]
                 ELSE LET r == record_grade(d1, question_name, submitted_answer,
                                            t.partial_score, g.feedback, ffn)
                      IN  [data |-> r.data, exc |-> r.exc, rules |-> g.rules]

RECURSIVE SumOver(_, _, _)
\* sum(f(part) for part in partial_scores.values()), f given as "weight" or "score*weight"
SumOver(partial_scores, names, what) ==
    IF names = {}
    THEN 0
    ELSE LET n == CHOOSE x \in names : TRUE
             part == partial_scores[n]
             term == IF what = "weight"
                     THEN part.weight
                     ELSE Numerator(part.score) * part.weight
         IN  term + SumOver(partial_scores, names \ {n}, what)

\* The weighted average with the operands of the division exchanged.
set_weighted_score_data_swapped(d) ==
    LET parts == d.partial_scores
        total == SumOver(parts, DOMAIN parts, "score*weight")
        weights == SumOver(parts, DOMAIN parts, "weight")
    IN  IF total = 0
        THEN [data |-> d, exc |-> "ZeroDivisionError"]
        ELSE [data |-> Put(d, "score", [num |-> weights * ScoreDen, den |-> total]),
              exc |-> "none"]

\* set_weighted_score_data(data): data['score'] is the weighted average, kept as
\* the fraction num / den; a zero sum of weights raises ZeroDivisionError.
set_weighted_score_data(d) ==
    LET parts == d.partial_scores
        total == SumOver(parts, DOMAIN parts, "score*weight")
        weights == SumOver(parts, DOMAIN parts, "weight")
    IN  IF weights = 0
        THEN [data |-> d, exc |-> "ZeroDivisionError"]
        ELSE [data |-> Put(d, "score", [num |-> total, den |-> weights * ScoreDen]),
              exc |-> "none"]

(***************************************************************************)
(* shared_utils.py: binary_search, is_power_of_base                        *)
(***************************************************************************)

\* What a call of a pure function does: returns an int, returns None, returns
\* a bool, or raises.
ReturnInt(n) == [exc |-> "none", kind |-> "int", value |-> n]

ReturnNone == [exc |-> "none", kind |-> "None", value |-> 0]

ReturnBool(b) == [exc |-> "none", kind |-> "bool", value |-> IF b THEN 1 ELSE 0]

Raised(exception) == [exc |-> exception, kind |-> "None", value |-> 0]

RECURSIVE binary_search_loop(_, _, _)
\* The while loop of binary_search: the value of lo when it ends.
binary_search_loop(lo, hi, condition_fn) ==
    IF lo < hi
    THEN LET mid == lo + (hi - lo) \div 2
         IN  IF condition_fn[mid]
             THEN binary_search_loop(lo, mid, condition_fn)
             ELSE binary_search_loop(mid + 1, hi, condition_fn)
    ELSE lo

binary_search(lo, hi, condition_fn) ==
    IF ~(lo <= hi)
    THEN Raised("AssertionError")
    ELSE LET last == binary_search_loop(lo, hi, condition_fn)
         IN  IF ~condition_fn[last] THEN ReturnNone ELSE ReturnInt(last)

RECURSIVE Pow(_, _)
\* base ** x on Python ints, x >= 0 (0 ** 0 is 1).
Pow(base, x) == IF x = 0 THEN 1 ELSE base * Pow(base, x - 1)

is_power_of_base(num, base) ==
    LET smallest_pow_greater_than ==
            binary_search(0, num, [x \in 0..num |-> Pow(base, x) >= num])
    IN  IF smallest_pow_greater_than.exc # "none"
        THEN smallest_pow_greater_than
        ELSE IF smallest_pow_greater_than.kind # "None"
        THEN ReturnBool(num = Pow(base, smallest_pow_greater_than.value))
        ELSE Raised("ValueError")

(***************************************************************************)
(* Bounds and inputs                                                       *)
(***************************************************************************)

\* Largest weight argument and largest weight of a question graded earlier.
MaxWeight == 2

\* binary_search is called on ranges within MinInt..MaxInt.
MinInt == 2

MaxInt == 3

\* is_power_of_base is called on num in 0..MaxNum, base in 0..MaxBase.
MaxNum == 9

MaxBase == 4

Artists == Range(ARTIST)

Locations == Range(PLAY_LOCATION)

Instruments == Range(INSTRUMENT)

\* The token lists the play_music grammar derives: the epsilon branch and the
\* 27 ARTIST x PLAY_LOCATION x INSTRUMENT combinations.
DerivableSubmissions ==
    {<<"Play">>} \cup
    {<<"Play", a, l, i>> : a \in Artists, l \in Locations, i \in Instruments}

\* Token lists the grammar does not derive: nothing at all, a missing "Play",
\* a cut-off sentence, parts out of order, a trailing token.
MalformedSubmissions ==
    {<<>>} \cup
    {<<a, l, i>> : a \in Artists, l \in Locations, i \in Instruments} \cup
    {<<"Play", a>> : a \in Artists} \cup
    {<<"Play", a, l>> : a \in Artists, l \in Locations} \cup
    {<<"Play", l, a, "with a guitar">> : a \in Artists, l \in Locations} \cup
    {<<"Play", "Play">>, <<"Play", "Vulfpeck", "at home", "with a violin", "with a guitar">>}

Submissions == DerivableSubmissions \cup MalformedSubmissions

\* What a stub grade function may return as its first element.
StubResults == {Bool(TRUE), Bool(FALSE), Other} \cup {Num(n) : n \in (0 - 1)..(ScoreDen + 1)}

StubFeedback == {None, "", "Good", EchoFeedback}

StubOutcomes ==
    {Return(r, f, 0) : r \in StubResults, f \in StubFeedback} \cup
    {Raise("ValueError", m, 0) : m \in {"Make sure to format your answer with curly braces to denote a set", MarkupMessage}} \cup
    {Raise("RuntimeError", "", 0)}

StubAnswers ==
    {StrAnswer(<<"0">>), StrAnswer(<<"<", "0", ">">>), ListAnswer(<<"<", "0", ">">>)}

\* partial_scores as the host may pass it: empty, a question graded earlier,
\* or the record a previous grading of this question left.
InitialPartialScores ==
    {EmptyDict} \cup
    {[other_question |-> [score |-> Num(n), weight |-> w]] :
        n \in {0, ScoreDen}, w \in 0..MaxWeight} \cup
    {[subproblem_definition |-> [score |-> Num(ScoreDen), weight |-> 1, feedback |-> "Good"]]}

InitialFeedback == {EmptyDict, [subproblem_definition |-> "Good"]}

NoStub == Return(Other, None, 0)

NoArgs == [lo |-> 0, hi |-> 0]

(***************************************************************************)
(* The grade callback                                                      *)
(***************************************************************************)

InitData(answers, scores, fb) ==
    [submitted_answers |-> answers, partial_scores |-> scores,
     format_errors |-> EmptyDict, feedback |-> fb]

Init ==
    /\ pc = "start"
    /\ exc = "none"
    /\ rules_evaluated = 0
    /\ fn = "none" /\ args = NoArgs /\ result = ReturnNone
    /\ \E scores \in InitialPartialScores, fb \in InitialFeedback :
          \/ /\ grade_function = "grade_statement"
             /\ stub = NoStub
             /\ weight = 1
             /\ feedback_field_name = None
             /\ \E answers \in {EmptyDict} \cup
                               {[subproblem_definition |-> ListAnswer(t)] : t \in Submissions} :
                   data = InitData(answers, scores, fb)
          \/ /\ grade_function = "stub"
             /\ stub \in StubOutcomes
             /\ weight \in 0..MaxWeight
             /\ feedback_field_name \in {None, "holistic"}
             /\ \E answers \in {EmptyDict} \cup
                               {[subproblem_definition |-> a] : a \in StubAnswers} :
                   data = InitData(answers, scores, fb)
    /\ data0 = data

\* grade, first statement: grade_question_parameterized(data, QUESTION, ...)
GradeQuestion ==
    /\ pc = "start"
    /\ LET r == grade_question_parameterized(data, QUESTION, grade_function, stub,
                                             weight, feedback_field_name)
       IN  /\ data' = r.data
           /\ exc' = r.exc
           /\ rules_evaluated' = r.rules
           /\ pc' = IF r.exc = "none" THEN "graded" ELSE "raised"
    /\ UNCHANGED <<data0, grade_function, stub, weight, feedback_field_name, pureVars>>

\* grade, second statement: set_weighted_score_data(data)
SetWeightedScore ==
    /\ pc = "graded"
    /\ LET r == set_weighted_score_data(data)
       IN  /\ data' = r.data
           /\ exc' = r.exc
           /\ pc' = IF r.exc = "none" THEN "done" ELSE "raised"
    /\ UNCHANGED <<data0, grade_function, stub, weight, feedback_field_name,
                   rules_evaluated, pureVars>>

Next == GradeQuestion \/ SetWeightedScore

Spec == Init /\ [][Next]_vars

(***************************************************************************)
(* Calls of the pure functions                                             *)
(***************************************************************************)

Ints == (0 - MinInt)..MaxInt

InitPure ==
    /\ pc = "call"
    /\ exc = "none"
    /\ rules_evaluated = 0
    /\ grade_function = "none" /\ stub = NoStub /\ weight = 1
    /\ feedback_field_name = None
    /\ data = InitData(EmptyDict, EmptyDict, EmptyDict)
    /\ data0 = data
    /\ result = ReturnNone
    /\ \/ /\ fn = "binary_search"
          /\ \E lo \in Ints, hi \in Ints, condition_fn \in [Ints -> BOOLEAN] :
                args = [lo |-> lo, hi |-> hi, condition_fn |-> condition_fn]
       \/ /\ fn = "is_power_of_base"
          /\ \E num \in 0..MaxNum, base \in 0..MaxBase :
                args = [num |-> num, base |-> base]
       \/ /\ fn = "grade_statement"
          /\ \E tokens \in Submissions : args = [tokens |-> tokens]

CallBinarySearch ==
    /\ pc = "call" /\ fn = "binary_search"
    /\ result' = binary_search(args.lo, args.hi, args.condition_fn)
    /\ pc' = "returned"
    /\ UNCHANGED <<gradeVars, fn, args>>

CallIsPowerOfBase ==
    /\ pc = "call" /\ fn = "is_power_of_base"
    /\ result' = is_power_of_base(args.num, args.base)
    /\ pc' = "returned"
    /\ UNCHANGED <<gradeVars, fn, args>>

CallGradeStatement ==
    /\ pc = "call" /\ fn = "grade_statement"
    /\ result' = grade_statement(args.tokens)
    /\ pc' = "returned"
    /\ UNCHANGED <<gradeVars, fn, args>>

NextPure == CallBinarySearch \/ CallIsPowerOfBase \/ CallGradeStatement

SpecPure == InitPure /\ [][NextPure]_vars

(***************************************************************************)
(* Properties                                                              *)
(***************************************************************************)

\* The rules of play_music in declared order, read off the tokens of a
\* derivable submission <<"Play", artist, location, instrument>>.
RuleHolds(j, t) ==
    /\ Len(t) = 4
    /\ CASE j = 1 -> t[2] = "Vulfpeck" /\ t[3] = "in church"
         [] j = 2 -> t[2] = "Taylor Swift"
         [] j = 3 -> t[2] = "Vulfpeck" /\ t[4] = "with a violin"
         [] j = 4 -> t[3] = "at home"
         [] j = 5 -> t[2] = "Janice Kapp Perry" /\ t[3] = "at the quad"

RuleFeedback(j) ==
    CASE j = 1 -> "Vulfpeck is great, but not in the context of church. consider playing somewhere else."
      [] j = 2 -> "It's best to sing Taylor Swift songs rather than play them. Try again."
      [] j = 3 -> "Yeah that doesn't really work. You'd better use a different instrument if you want to play Vulfpeck"
      [] j = 4 -> "No need to play at home anymore. You've practiced. Go out and play!"
      [] j = 5 -> "Her music is a bit soft. Not many people will be able to hear it"

FailingRules(t) == {j \in 1..5 : RuleHolds(j, t)}

\* grade_statement has returned from a derivable submission.
GradedDerivable ==
    /\ pc = "returned" /\ fn = "grade_statement"
    /\ args.tokens \in DerivableSubmissions

\* The call returned the tuple (verdict, feedback).
Returned(verdict, feedback_content) ==
    /\ result.exc = "none"
    /\ result.result = Bool(verdict)
    /\ result.feedback = feedback_content

\* C1: for every submission the grammar derives, grade_statement returns
\* (False, feedback) of the first rule in declared order whose condition holds,
\* whatever the later rules say; Vulfpeck in church is rejected with the church
\* feedback with any instrument, the violin included.
C1_FirstFailingRuleWins ==
    GradedDerivable =>
        /\ FailingRules(args.tokens) # {} =>
              LET first == CHOOSE j \in FailingRules(args.tokens) :
                               \A k \in FailingRules(args.tokens) : j <= k
              IN  Returned(FALSE, RuleFeedback(first))
        /\ (Len(args.tokens) = 4 /\ args.tokens[2] = "Vulfpeck" /\ args.tokens[3] = "in church") =>
              Returned(FALSE, "Vulfpeck is great, but not in the context of church. consider playing somewhere else.")

\* Vulfpeck in church with a violin (rules 1 and 3 both fail) got the church feedback.
C1_Witness ==
    /\ GradedDerivable
    /\ args.tokens = <<"Play", "Vulfpeck", "in church", "with a violin">>
    /\ Returned(FALSE, RuleFeedback(1))

\* C2: every derivation with ARTIST = Taylor Swift, at any location and with
\* any instrument, is rejected with the Taylor Swift feedback.
C2_TaylorSwiftRejected ==
    (GradedDerivable /\ Len(args.tokens) = 4 /\ args.tokens[2] = "Taylor Swift") =>
        /\ args.tokens[3] \in Locations /\ args.tokens[4] \in Instruments
        /\ result.exc = "none"
        /\ result.result = Bool(FALSE)
        /\ result.feedback = "It's best to sing Taylor Swift songs rather than play them. Try again."

\* Taylor Swift at home (the at-home rule fails too) got the Taylor Swift feedback.
C2_Witness ==
    /\ GradedDerivable
    /\ args.tokens = <<"Play", "Taylor Swift", "at home", "with a guitar">>
    /\ result.feedback = "It's best to sing Taylor Swift songs rather than play them. Try again."

\* C3: Vulfpeck at the quad with a guitar is accepted with the ultimate-combo
\* feedback; every other derivation no failing rule rejects is accepted with
\* no feedback.
C3_BonusFeedbackOnlyForUltimateCombo ==
    (GradedDerivable /\ FailingRules(args.tokens) = {}) =>
        IF args.tokens = <<"Play", "Vulfpeck", "at the quad", "with a guitar">>
        THEN Returned(TRUE, "Yep. That's the ultimate combo.")
        ELSE Returned(TRUE, None)

\* The ultimate combo was graded and accepted with its feedback.
C3_Witness ==
    /\ GradedDerivable
    /\ args.tokens = <<"Play", "Vulfpeck", "at the quad", "with a guitar">>
    /\ FailingRules(args.tokens) = {}
    /\ Returned(TRUE, "Yep. That's the ultimate combo.")

\* C4: for the empty submission (PLAY -> EPSILON) every path query on ARTIST,
\* PLAY_LOCATION and INSTRUMENT is false and grade_statement returns (True, None).
C4_EpsilonAccepted ==
    (pc = "returned" /\ fn = "grade_statement" /\ args.tokens = <<"Play">>) =>
        LET submission == StudentSubmission(args.tokens, PROBLEM_CONFIG)
        IN  /\ submission.exc = "none"
            /\ \A a \in Artists : ~does_path_exist(submission, "ARTIST", a)
            /\ \A l \in Locations : ~does_path_exist(submission, "PLAY_LOCATION", l)
            /\ \A i \in Instruments : ~does_path_exist(submission, "INSTRUMENT", i)
            /\ Returned(TRUE, None)

\* The empty submission was graded through the epsilon branch.
C4_Witness ==
    /\ pc = "returned" /\ fn = "grade_statement" /\ args.tokens = <<"Play">>
    /\ does_path_exist(StudentSubmission(args.tokens, PROBLEM_CONFIG), "PLAY", "EPSILON")
    /\ result.rules = 6

\* The record of QUESTION in partial_scores is as created: score 0, the given
\* weight, no feedback.
ScoreRecordUntouched(d) ==
    /\ QUESTION \in DOMAIN d.partial_scores
    /\ d.partial_scores[QUESTION] = [score |-> Num(0), weight |-> weight]

\* C5: a call of grade_question_parameterized that records a format error
\* (no answer submitted, or a ValueError of the grade function or of the
\* derivation build) returns without raising, has evaluated no rule of
\* grade_statement, leaves the partial score at 0 with the given weight and
\* writes no feedback to partial_scores or to data['feedback'].
C5_FormatErrorIsNotFatal ==
    [][(pc = "start" /\ QUESTION \in DOMAIN data'.format_errors) =>
          /\ pc' = "graded" /\ exc' = "none"
          /\ grade_function = "grade_statement" => rules_evaluated' = 0
          /\ ScoreRecordUntouched(data')
          /\ data'.feedback = data.feedback]_vars

\* A submission the grammar does not derive was recorded as a format error,
\* over a record a previous grading had left.
C5_Witness ==
    /\ pc = "graded"
    /\ grade_function = "grade_statement"
    /\ QUESTION \in DOMAIN data.submitted_answers
    /\ data.submitted_answers[QUESTION].value = <<"Play", "Vulfpeck">>
    /\ QUESTION \in DOMAIN data0.partial_scores
    /\ QUESTION \in DOMAIN data.format_errors

\* The stub grade function returned a number outside [0, 1] for a submitted answer.
OutOfRangeResult ==
    /\ grade_function = "stub"
    /\ QUESTION \in DOMAIN data0.submitted_answers
    /\ stub.exc = "none"
    /\ stub.result.type = "num"
    /\ (stub.result.val < 0 \/ stub.result.val > ScoreDen)

\* C6: once grade_question_parameterized has returned or raised, the stored
\* score of the question is within [0, 1]; a numeric result outside [0, 1]
\* raises AssertionError to the caller, records no format error and leaves
\* the stored score at 0.
C6_StoredScoreInUnitInterval ==
    pc # "start" =>
        /\ QUESTION \in DOMAIN data.partial_scores
        /\ LET score == data.partial_scores[QUESTION].score
           IN  /\ score.type \in {"bool", "num"}
               /\ 0 <= Numerator(score)
               /\ Numerator(score) <= ScoreDen
        /\ OutOfRangeResult =>
              /\ pc = "raised" /\ exc = "AssertionError"
              /\ QUESTION \notin DOMAIN data.format_errors
              /\ data.partial_scores[QUESTION].score = Num(0)

\* A result above 1 tripped the assertion.
C6_Witness ==
    /\ pc = "raised" /\ exc = "AssertionError"
    /\ OutOfRangeResult
    /\ stub.result = Num(ScoreDen + 1)

\* grade_statement accepts the answer submitted for QUESTION.
Accepted(d) ==
    /\ QUESTION \in DOMAIN d.submitted_answers
    /\ grade_statement(d.submitted_answers[QUESTION].value).exc = "none"
    /\ grade_statement(d.submitted_answers[QUESTION].value).result = Bool(TRUE)

\* play_music.grade was called on a data record with no partial score.
PlayMusicOnFreshData ==
    /\ grade_function = "grade_statement"
    /\ data0.partial_scores = EmptyDict

\* C9: play_music.grade on a data record with empty partial_scores returns
\* (never dividing by zero) with data['score'] equal to 1 when grade_statement
\* accepted the submission and to 0 otherwise (failing rule, format error,
\* missing answer).
C9_OverallScoreIsVerdict ==
    PlayMusicOnFreshData =>
        /\ pc # "raised"
        /\ pc = "done" =>
              /\ "score" \in DOMAIN data
              /\ data.score.den # 0
              /\ IF Accepted(data0)
                 THEN data.score.num = data.score.den
                 ELSE data.score.num = 0

\* An accepted submission was given the overall score 1, a rejected one 0.
C9_Witness ==
    /\ PlayMusicOnFreshData
    /\ pc = "done"
    /\ Accepted(data0)
    /\ data.score = [num |-> ScoreDen, den |-> ScoreDen]

\* condition_fn is false, then true.
Monotone(condition_fn) ==
    \A x, y \in DOMAIN condition_fn : (x <= y /\ condition_fn[x]) => condition_fn[y]

\* C7: for lo <= hi and a monotone condition_fn, binary_search returns the
\* lowest value of the half-open range [lo, hi) at which condition_fn is
\* true, and None when it is true nowhere in [lo, hi).
C7_BinarySearchHalfOpenRange ==
    (/\ pc = "returned" /\ fn = "binary_search"
     /\ args.lo <= args.hi
     /\ Monotone(args.condition_fn)) =>
        LET hits == {x \in args.lo..(args.hi - 1) : args.condition_fn[x]}
        IN  IF hits = {}
            THEN result = ReturnNone
            ELSE /\ result.exc = "none" /\ result.kind = "int"
                 /\ result.value \in hits
                 /\ \A x \in hits : result.value <= x

\* C8: for num >= 0 and base >= 0, is_power_of_base returns True when some
\* x >= 0 has base^x = num, False otherwise, and never raises ValueError.
C8_IsPowerOfBaseTotal ==
    (pc = "returned" /\ fn = "is_power_of_base") =>
        /\ result.exc = "none"
        /\ result = ReturnBool(\E x \in 0..(args.num + 1) : Pow(args.base, x) = args.num)

====
